---- MODULE Spec2Model ----
(***************************************************************************)
(* Confidential-transaction extension of the partially signed transaction  *)
(* container (libs/common/bitcoin/liquid/pset.py): LInputScope,            *)
(* LOutputScope and PSET.                                                   *)
(*                                                                         *)
(* The commitment engine (secp256k1-zkp) is modelled algebraically: a      *)
(* curve point is its coordinate vector over the basis G, H(1)..H(NAssets) *)
(* with scalars taken modulo Q; serialisation tags a point with its kind.  *)
(* Optional fields are <<>> (None) or <<x>>.  Byte strings held by the     *)
(* records have the fixed, non-zero sizes of the data model, so a byte     *)
(* string is truthy exactly when it is not None; an int is truthy when it  *)
(* is neither None nor 0.                                                  *)
(***************************************************************************)
EXTENDS Integers, Sequences, FiniteSets, TLC

\* ------------------------------------------------------------ bounds
Q == 5
MaxValue == 1
NAssets == 2
NIn == 2
NOut == 2
NSeeds == 1
NKeys == 2

VARIABLES inputs, outputs, last, lastVerify, wire, ret

vars == <<inputs, outputs, last, lastVerify, wire, ret>>

Scalars == 0..(Q - 1)
Values == 0..MaxValue
Assets == 1..NAssets
Seeds == 1..NSeeds
Keys == 1..NKeys

\* ------------------------------------------------------------ python values
None == <<>>
Some(x) == <<x>>
Get(o) == o[1]
TruthyInt(o) == o # None /\ o[1] # 0
TruthyBytes(o) == o # None

RECURSIVE SumSeq(_)
SumSeq(s) == IF s = <<>> THEN 0 ELSE Head(s) + SumSeq(Tail(s))

\* ------------------------------------------------------------ commitment engine
Basis == 1..(NAssets + 1)
PZero == [k \in Basis |-> 0]
PAdd(P, R) == [k \in Basis |-> (P[k] + R[k]) % Q]
PMul(n, P) == [k \in Basis |-> (n * P[k]) % Q]
G == [k \in Basis |-> IF k = 1 THEN 1 ELSE 0]

generator_generate(a) == [k \in Basis |-> IF k = a + 1 THEN 1 ELSE 0]
generator_generate_blinded(a, abf) == PAdd(generator_generate(a), PMul(abf, G))
pedersen_commit(vbf, v, gen) == PAdd(PMul(v, gen), PMul(vbf, G))

\* wire values of a transaction output: 32-byte tag, 8-byte amount, 33-byte points
AssetTag(a) == [kind |-> "tag", n |-> a, pt |-> PZero]
ExplicitValue(v) == [kind |-> "int", n |-> v, pt |-> PZero]
generator_serialize(P) == [kind |-> "generator", n |-> 0, pt |-> P]
pedersen_commitment_serialize(P) == [kind |-> "commitment", n |-> 0, pt |-> P]
generator_parse(b) == b.pt
pedersen_commitment_parse(b) == b.pt
BytesLen(b) == IF b.kind = "tag" THEN 32 ELSE IF b.kind = "int" THEN 8 ELSE 33

\* sum_in (v*abf + vbf) - sum_out-but-last (v*abf + vbf) - v_last*abf_last
BlindTerm(vals, abfs, vbfs, i) == vals[i] * abfs[i] + vbfs[i]
pedersen_blind_generator_blind_sum(vals, abfs, vbfs, n_in) ==
    LET n == Len(vals)
        ins == SumSeq([i \in 1..n_in |-> BlindTerm(vals, abfs, vbfs, i)])
        mid == SumSeq([j \in 1..(n - 1 - n_in) |-> BlindTerm(vals, abfs, vbfs, n_in + j)])
    IN  (ins - mid - vals[n] * abfs[n]) % Q

\* ------------------------------------------------------------ hashes
\* variant: the hashed data also covers the outputs' stored commitments
txseedOverCommitments(seed, ins, outs) ==
    seed + SumSeq([i \in 1..Len(ins) |-> ins[i].txid + ins[i].vout])
         + SumSeq([j \in 1..Len(outs) |->
                outs[j].script_pubkey + (IF outs[j].value_commitment = None THEN 0 ELSE 1)])

txseed(seed, ins, outs) ==
    seed + SumSeq([i \in 1..Len(ins) |-> ins[i].txid + ins[i].vout])
         + SumSeq([j \in 1..Len(outs) |-> outs[j].script_pubkey])

TagMul(tag) == CASE tag = "liquid/abf" -> 2
                 [] tag = "liquid/vbf" -> 3
                 [] tag = "liquid/surjection_proof" -> 1
                 [] OTHER -> 4
tagged_hash(tag, ts, i) == (TagMul(tag) * ts + (TagMul(tag) - 1) * i + TagMul(tag)) % Q

\* ------------------------------------------------------------ records
NewLOutputScope(script, value, asset, bpk) ==
    [script_pubkey |-> script, value |-> value, asset |-> asset,
     value_commitment |-> None, value_blinding_factor |-> None,
     asset_commitment |-> None, asset_blinding_factor |-> None,
     range_proof |-> None, surjection_proof |-> None,
     ecdh_pubkey |-> None, blinding_pubkey |-> bpk,
     blinder_index |-> None, verified |-> FALSE]

NewLInputScope(txid, vout, utxo, range_proof) ==
    [txid |-> txid, vout |-> vout, utxo |-> utxo,
     value |-> None, value_blinding_factor |-> None,
     asset |-> None, asset_blinding_factor |-> None,
     range_proof |-> range_proof, verified |-> FALSE]

Result(obj, outcome) == [obj |-> obj, outcome |-> outcome]

\* ------------------------------------------------------------ LInputScope
InClearMetadata(inp) ==
    [inp EXCEPT !.utxo = None, !.range_proof = None,
                !.value_blinding_factor = None, !.asset_blinding_factor = None,
                !.value = None, !.asset = None]

blinding_key(master, script) == <<master, script>>

\* variant: the recovered values are stored before they are compared
InUnblindStoresFirst(inp, key) ==
    IF inp.range_proof = None THEN Result(inp, "ok")
    ELSE IF inp.utxo = None THEN Result(inp, "AttributeError")
    ELSE LET utxo == Get(inp.utxo)
             rp == Get(inp.range_proof)
             stored == [inp EXCEPT !.asset = Some(rp.asset),
                                   !.value = Some(rp.value),
                                   !.asset_blinding_factor = Some(rp.abf),
                                   !.value_blinding_factor = Some(rp.vbf)]
             gen == generator_generate_blinded(rp.asset, rp.abf)
         IN  IF rp.key # blinding_key(key, utxo.script_pubkey)
             THEN Result(inp, "RewindError")
             ELSE IF gen # generator_parse(utxo.asset)
                     \/ pedersen_commit(rp.vbf, rp.value, gen) #
                            pedersen_commitment_parse(utxo.value)
             THEN Result(stored, "AssertionError")
             ELSE Result(stored, "ok")

InUnblind(inp, key) ==
    IF inp.range_proof = None THEN Result(inp, "ok")
    ELSE IF inp.utxo = None THEN Result(inp, "AttributeError")
    ELSE LET utxo == Get(inp.utxo)
             rp == Get(inp.range_proof)
         IN  IF rp.key # blinding_key(key, utxo.script_pubkey)
             THEN Result(inp, "RewindError")
             ELSE LET gen == generator_generate_blinded(rp.asset, rp.abf)
                      cmt == pedersen_commit(rp.vbf, rp.value, gen)
                  IN  IF gen # generator_parse(utxo.asset)
                      THEN Result(inp, "AssertionError")
                      ELSE IF cmt # pedersen_commitment_parse(utxo.value)
                      THEN Result(inp, "AssertionError")
                      ELSE Result([inp EXCEPT !.asset = Some(rp.asset),
                                              !.value = Some(rp.value),
                                              !.asset_blinding_factor = Some(rp.abf),
                                              !.value_blinding_factor = Some(rp.vbf)],
                                  "ok")

\* ------------------------------------------------------------ LOutputScope
OutIsVerified(o) == o.verified

\* variant: the verified flag is not reset on entry
OutVerifyKeepsFlag(o) ==
    LET checkAsset == TruthyBytes(o.asset) /\ TruthyBytes(o.asset_commitment)
        haveGen == checkAsset /\ TruthyBytes(o.asset_blinding_factor)
        gen == IF haveGen
               THEN generator_generate_blinded(Get(o.asset), Get(o.asset_blinding_factor))
               ELSE PZero
        checkValue == TruthyInt(o.value) /\ TruthyBytes(o.value_commitment)
    IN  IF \/ checkAsset /\ ~haveGen
           \/ checkAsset /\ haveGen /\ Get(o.asset_commitment) # generator_serialize(gen)
           \/ checkValue /\ ~haveGen
           \/ checkValue /\ haveGen /\ o.value_blinding_factor # None
                /\ Get(o.value_commitment) # pedersen_commitment_serialize(
                     pedersen_commit(Get(o.value_blinding_factor), Get(o.value), gen))
        THEN Result(o, "Invalid commitments")
        ELSE IF checkValue /\ o.value_blinding_factor = None
        THEN Result(o, "TypeError")
        ELSE Result([o EXCEPT !.verified = TRUE], "ok")

OutVerify(o) ==
    LET o0 == [o EXCEPT !.verified = FALSE]
        checkAsset == TruthyBytes(o.asset) /\ TruthyBytes(o.asset_commitment)
        haveGen == checkAsset /\ TruthyBytes(o.asset_blinding_factor)
        gen == IF haveGen
               THEN generator_generate_blinded(Get(o.asset), Get(o.asset_blinding_factor))
               ELSE PZero
        checkValue == TruthyInt(o.value) /\ TruthyBytes(o.value_commitment)
    IN  IF checkAsset /\ ~TruthyBytes(o.asset_blinding_factor)
        THEN Result(o0, "Invalid commitments")
        ELSE IF checkAsset /\ Get(o.asset_commitment) # generator_serialize(gen)
        THEN Result(o0, "Invalid commitments")
        ELSE IF checkValue /\ ~haveGen
        THEN Result(o0, "Invalid commitments")
        ELSE IF checkValue /\ o.value_blinding_factor = None
        THEN Result(o0, "TypeError")
        ELSE IF checkValue /\ Get(o.value_commitment) #
                 pedersen_commitment_serialize(
                     pedersen_commit(Get(o.value_blinding_factor), Get(o.value), gen))
        THEN Result(o0, "Invalid commitments")
        ELSE Result([o0 EXCEPT !.verified = TRUE], "ok")

\* variant: plaintext value and asset are always cleared
OutClearMetadataAll(o) ==
    [o EXCEPT !.range_proof = None, !.surjection_proof = None,
              !.value_blinding_factor = None, !.asset_blinding_factor = None,
              !.value = None, !.asset = None, !.blinder_index = None]

OutClearMetadata(o) ==
    [o EXCEPT !.range_proof = None, !.surjection_proof = None,
              !.value_blinding_factor = None, !.asset_blinding_factor = None,
              !.value = IF TruthyBytes(o.value_commitment) THEN None ELSE o.value,
              !.asset = IF TruthyBytes(o.asset_commitment) THEN None ELSE o.asset,
              !.blinder_index = None]

\* python's  a or b : a when a is truthy, else b
PlainOr(plain, truthy, commit) ==
    IF truthy THEN [plain |-> plain, commit |-> None]
              ELSE [plain |-> None, commit |-> commit]
CommitOr(commit, plain) ==
    IF TruthyBytes(commit) THEN [plain |-> None, commit |-> commit]
                           ELSE [plain |-> plain, commit |-> None]

OutVout(o) ==
    [asset |-> PlainOr(o.asset, TruthyBytes(o.asset), o.asset_commitment),
     value |-> PlainOr(o.value, TruthyInt(o.value), o.value_commitment),
     script_pubkey |-> o.script_pubkey,
     ecdh_pubkey |-> IF TruthyBytes(o.asset) THEN None ELSE o.ecdh_pubkey,
     witness |-> None]

OutBlindedVout(o) ==
    [asset |-> CommitOr(o.asset_commitment, o.asset),
     value |-> CommitOr(o.value_commitment, o.value),
     script_pubkey |-> o.script_pubkey,
     ecdh_pubkey |-> o.ecdh_pubkey,
     witness |-> IF ~TruthyBytes(o.surjection_proof) THEN None
                 ELSE Some([surjection |-> o.surjection_proof, range |-> o.range_proof])]

OutIsBlinded(o) == TruthyBytes(o.value_commitment) /\ TruthyBytes(o.asset_commitment)

PrivateKeySec(nonce) == 100 + nonce
rangeproof_sign(ecdh_nonce, value, commit, vbf, msg, script, gen) ==
    [nonce |-> ecdh_nonce, value |-> value, commit |-> commit, vbf |-> vbf,
     msg |-> msg, script |-> script, gen |-> gen]

OutReblind(o, nonce, blinding_pubkey, extra_message) ==
    IF ~OutIsBlinded(o) THEN Result(o, "ok")
    ELSE LET bpk == IF TruthyBytes(blinding_pubkey) THEN blinding_pubkey
                    ELSE o.blinding_pubkey
         IN  IF ~TruthyBytes(bpk) THEN Result(o, "Blinding pubkey required")
             ELSE LET o1 == [o EXCEPT !.ecdh_pubkey = Some(PrivateKeySec(nonce))]
                      ecdh_nonce == <<Get(bpk), nonce>>
                  IN  IF o.asset = None \/ o.asset_blinding_factor = None
                         \/ o.value = None \/ o.value_blinding_factor = None
                      THEN Result(o1, "TypeError")
                      ELSE Result([o1 EXCEPT !.range_proof = Some(rangeproof_sign(
                                       ecdh_nonce, Get(o.value),
                                       pedersen_commitment_parse(Get(o.value_commitment)),
                                       Get(o.value_blinding_factor),
                                       <<Get(o.asset), Get(o.asset_blinding_factor), extra_message>>,
                                       o.script_pubkey,
                                       generator_parse(Get(o.asset_commitment))))],
                                  "ok")

\* ------------------------------------------------------------ PSET
PSETIsVerified(ins, outs) ==
    /\ \A i \in 1..Len(ins) : ins[i].verified
    /\ \A j \in 1..Len(outs) : OutIsVerified(outs[j])

RECURSIVE UnblindInputs(_, _, _)
UnblindInputs(ins, i, key) ==
    IF i > Len(ins) THEN Result(ins, "ok")
    ELSE LET r == InUnblind(ins[i], key)
             ins1 == [ins EXCEPT ![i] = r.obj]
         IN  IF r.outcome # "ok" THEN Result(ins1, r.outcome)
             ELSE UnblindInputs(ins1, i + 1, key)

PSETUnblind(ins, key) == UnblindInputs(ins, 1, key)

RECURSIVE VerifyOutputs(_, _)
VerifyOutputs(outs, j) ==
    IF j > Len(outs) THEN Result(outs, "ok")
    ELSE LET r == OutVerify(outs[j])
             outs1 == [outs EXCEPT ![j] = r.obj]
         IN  IF r.outcome # "ok" THEN Result(outs1, r.outcome)
             ELSE VerifyOutputs(outs1, j + 1)

\* the base container's verify: raises, or marks every input verified
BaseVerify(ins, passes) ==
    IF passes THEN Result([i \in 1..Len(ins) |-> [ins[i] EXCEPT !.verified = TRUE]], "ok")
              ELSE Result(ins, "PSBTError")

\* ---- blind
\* variant: an output qualifies as soon as it has a blinding public key
QualifiesByPubkeyOnly(o) == ~(o.blinding_pubkey = None)

Qualifies(o) == ~(o.blinding_pubkey = None \/ o.value = None)

AssignFactors(outs, ts) ==
    [j \in 1..Len(outs) |->
        IF Qualifies(outs[j])
        THEN [outs[j] EXCEPT
                !.asset_blinding_factor = Some(tagged_hash("liquid/abf", ts, j - 1)),
                !.value_blinding_factor = Some(tagged_hash("liquid/vbf", ts, j - 1))]
        ELSE outs[j]]

BlindingOuts(outs) ==
    LET Test(j) == Qualifies(outs[j])
    IN  SelectSeq([j \in 1..Len(outs) |-> j], Test)

\* sc.value or sc.utxo.value
InputValKind(inp) ==
    IF TruthyInt(inp.value) THEN "int"
    ELSE IF inp.utxo = None THEN "AttributeError"
    ELSE IF Get(inp.utxo).value.kind = "int" THEN "int" ELSE "TypeError"
InputVal(inp) ==
    IF TruthyInt(inp.value) THEN Get(inp.value) ELSE Get(inp.utxo).value.n

OrZero(o) == IF TruthyBytes(o) THEN Get(o) ELSE 0

BlindVals(ins, outs, bl) ==
    [i \in 1..Len(ins) |-> InputVal(ins[i])] \o [k \in 1..Len(bl) |-> Get(outs[bl[k]].value)]
BlindAbfs(ins, outs, bl) ==
    [i \in 1..Len(ins) |-> OrZero(ins[i].asset_blinding_factor)]
        \o [k \in 1..Len(bl) |-> OrZero(outs[bl[k]].asset_blinding_factor)]
BlindVbfs(ins, outs, bl) ==
    [i \in 1..Len(ins) |-> OrZero(ins[i].value_blinding_factor)]
        \o [k \in 1..Len(bl) |-> OrZero(outs[bl[k]].value_blinding_factor)]

\* variant: the balancing factor is computed but not stored
SetLastVbfDropped(outs, bl, last_vbf) == outs

SetLastVbf(outs, bl, last_vbf) ==
    [outs EXCEPT ![bl[Len(bl)]].value_blinding_factor = Some(last_vbf)]

\* inputs that contribute an asset tag and a generator to the surjection domain
InTagKind(inp) ==
    IF TruthyBytes(inp.asset)
    THEN IF inp.utxo = None THEN "AttributeError"
         ELSE IF Get(inp.utxo).asset.kind # "generator" THEN "ValueError" ELSE "tag"
    ELSE IF inp.utxo = None THEN "AttributeError"
    ELSE IF BytesLen(Get(inp.utxo).asset) = 32 THEN "tag" ELSE "skip"
InTag(inp) ==
    IF TruthyBytes(inp.asset) THEN Get(inp.asset) ELSE Get(inp.utxo).asset.n
InGen(inp) ==
    IF TruthyBytes(inp.asset) THEN generator_parse(Get(inp.utxo).asset)
    ELSE generator_generate(Get(inp.utxo).asset.n)
EligibleInputs(ins) ==
    LET Test(i) == InTagKind(ins[i]) = "tag"
    IN  SelectSeq([i \in 1..Len(ins) |-> i], Test)

\* positions of in_tags equal to the output's tag; the seed picks one of them
surjectionproof_matches(in_tags, tag) ==
    LET Test(k) == in_tags[k] = tag
    IN  SelectSeq([k \in 1..Len(in_tags) |-> k], Test)
surjectionproof_initialize(in_tags, tag, proof_seed) ==
    LET m == surjectionproof_matches(in_tags, tag)
    IN  m[(proof_seed % Len(m)) + 1] - 1
surjectionproof_generate(proof_seed, in_idx, in_gens, gen, in_abf, out_abf) ==
    [seed |-> proof_seed, in_idx |-> in_idx, in_gens |-> in_gens, gen |-> gen,
     in_abf |-> in_abf, out_abf |-> out_abf]

BlindOne(o, j, ts, in_tags, in_gens, abfs) ==
    IF o.asset = None THEN Result(o, "TypeError")
    ELSE LET gen == generator_generate_blinded(Get(o.asset), Get(o.asset_blinding_factor))
             o1 == [o EXCEPT
                      !.asset_commitment = Some(generator_serialize(gen)),
                      !.value_commitment = Some(pedersen_commitment_serialize(
                          pedersen_commit(Get(o.value_blinding_factor), Get(o.value), gen)))]
             proof_seed == tagged_hash("liquid/surjection_proof", ts, j - 1)
         IN  IF surjectionproof_matches(in_tags, Get(o.asset)) = <<>>
             THEN Result(o1, "SurjectionError")
             ELSE LET in_idx == surjectionproof_initialize(in_tags, Get(o.asset), proof_seed)
                      o2 == [o1 EXCEPT !.surjection_proof = Some(surjectionproof_generate(
                                proof_seed, in_idx, in_gens, gen, abfs[in_idx + 1],
                                Get(o.asset_blinding_factor)))]
                  IN  OutReblind(o2, tagged_hash("liquid/range_proof", ts, j - 1), None, 0)

RECURSIVE BlindOutputs(_, _, _, _, _, _)
BlindOutputs(outs, j, ts, in_tags, in_gens, abfs) ==
    IF j > Len(outs) THEN Result(outs, "ok")
    ELSE LET o == outs[j]
         IN  IF o.blinding_pubkey = None \/ o.value = None \/ o.asset_blinding_factor = None
             THEN BlindOutputs(outs, j + 1, ts, in_tags, in_gens, abfs)
             ELSE LET r == BlindOne(o, j, ts, in_tags, in_gens, abfs)
                      outs1 == [outs EXCEPT ![j] = r.obj]
                  IN  IF r.outcome # "ok" THEN Result(outs1, r.outcome)
                      ELSE BlindOutputs(outs1, j + 1, ts, in_tags, in_gens, abfs)

PSETBlind(ins, outs, seed) ==
    LET ts == txseed(seed, ins, outs)
        outs1 == AssignFactors(outs, ts)
        bl == BlindingOuts(outs)
    IN  IF Len(bl) = 0 THEN Result(outs1, "Nothing to blind")
        ELSE IF \E i \in 1..Len(ins) : InputValKind(ins[i]) = "AttributeError"
        THEN Result(outs1, "AttributeError")
        ELSE IF \/ \E i \in 1..Len(ins) : InputValKind(ins[i]) = "TypeError"
                \/ \E k \in 1..Len(bl) : outs1[bl[k]].value = None
        THEN Result(outs1, "TypeError")
        ELSE LET vals == BlindVals(ins, outs1, bl)
                 abfs == BlindAbfs(ins, outs1, bl)
                 vbfs == BlindVbfs(ins, outs1, bl)
                 last_vbf == pedersen_blind_generator_blind_sum(vals, abfs, vbfs, Len(ins))
                 outs2 == SetLastVbf(outs1, bl, last_vbf)
                 el == EligibleInputs(ins)
                 in_tags == [k \in 1..Len(el) |-> InTag(ins[el[k]])]
                 in_gens == [k \in 1..Len(el) |-> InGen(ins[el[k]])]
             IN  IF \E i \in 1..Len(ins) : InTagKind(ins[i]) \in {"AttributeError", "ValueError"}
                 THEN Result(outs2, "ValueError")
                 ELSE BlindOutputs(outs2, 1, ts, in_tags, in_gens, abfs)

\* ------------------------------------------------------------ container specification
Op(op, arg, outcome) == [op |-> op, arg |-> arg, outcome |-> outcome]

UtxoAbf(i) == (i + 1) % Q
UtxoVbf(i) == (2 * i + 1) % Q
InScript(i) == 10 + i
OutScript(j) == 20 + j
MasterKey == CHOOSE k \in Keys : \A m \in Keys : k <= m
OutPubkey(j) == 200 + j

\* a previous output with explicit asset and amount
ExplicitUtxo(i, v, a) ==
    [asset |-> AssetTag(a), value |-> ExplicitValue(v),
     ecdh_pubkey |-> None, script_pubkey |-> InScript(i)]
\* a previous confidential output committing to (v, a)
ConfidentialUtxo(i, v, a) ==
    LET gen == generator_generate_blinded(a, UtxoAbf(i))
    IN  [asset |-> generator_serialize(gen),
         value |-> pedersen_commitment_serialize(pedersen_commit(UtxoVbf(i), v, gen)),
         ecdh_pubkey |-> Some(PrivateKeySec(i)), script_pubkey |-> InScript(i)]
UtxoRangeProof(i, v, a, abf, vbf, master) ==
    [key |-> blinding_key(master, InScript(i)), value |-> v, asset |-> a,
     vbf |-> vbf, abf |-> abf]

MkInput(i, kind, v, a) ==
    IF kind = "explicit"
    THEN NewLInputScope(i, 0, Some(ExplicitUtxo(i, v, a)), None)
    ELSE NewLInputScope(i, 0, Some(ConfidentialUtxo(i, v, a)),
                        Some(UtxoRangeProof(i, v, a, UtxoAbf(i), UtxoVbf(i), MasterKey)))

MkOutput(j, v, a, blinded) ==
    NewLOutputScope(OutScript(j), Some(v), Some(a),
                    IF blinded THEN Some(OutPubkey(j)) ELSE None)

\* containers as built or parsed, before any blinding: every input spends an
\* explicit or a confidential (not yet unblinded) output of the first asset
Init ==
    /\ \E kinds \in [1..NIn -> {"explicit", "confidential"}], vs \in [1..NIn -> Values] :
            inputs = [i \in 1..NIn |-> MkInput(i, kinds[i], vs[i], 1)]
    /\ \E vs \in [1..NOut -> Values], as \in [1..NOut -> Assets],
          bs \in [1..NOut -> BOOLEAN] :
            outputs = [j \in 1..NOut |-> MkOutput(j, vs[j], as[j], bs[j])]
    /\ last = Op("init", 0, "ok")
    /\ lastVerify = "none"
    /\ wire = <<>>
    /\ ret = None

Blind(seed) ==
    LET r == PSETBlind(inputs, outputs, seed)
    IN  /\ outputs' = r.obj
        /\ last' = Op("blind", seed, r.outcome)
        /\ ret' = None
        /\ UNCHANGED <<inputs, lastVerify, wire>>

Unblind(key) ==
    LET r == PSETUnblind(inputs, key)
    IN  /\ inputs' = r.obj
        /\ last' = Op("unblind", key, r.outcome)
        /\ ret' = None
        /\ UNCHANGED <<outputs, lastVerify, wire>>

Verify(passes) ==
    LET b == BaseVerify(inputs, passes)
        r == VerifyOutputs(outputs, 1)
    IN  IF b.outcome # "ok"
        THEN /\ last' = Op("verify", 0, b.outcome)
             /\ lastVerify' = "base_raised"
             /\ ret' = None
             /\ UNCHANGED <<inputs, outputs, wire>>
        ELSE /\ inputs' = b.obj
             /\ outputs' = r.obj
             /\ last' = Op("verify", 0, r.outcome)
             /\ lastVerify' = IF r.outcome = "ok" THEN "ok" ELSE "output_raised"
             /\ ret' = IF r.outcome = "ok" THEN Some(PSETIsVerified(b.obj, r.obj)) ELSE None
             /\ UNCHANGED wire

ClearMetadataOut(j) ==
    /\ outputs' = [outputs EXCEPT ![j] = OutClearMetadata(outputs[j])]
    /\ last' = Op("clear_metadata_out", j, "ok")
    /\ ret' = None
    /\ UNCHANGED <<inputs, lastVerify, wire>>

ClearMetadataIn(i) ==
    /\ inputs' = [inputs EXCEPT ![i] = InClearMetadata(inputs[i])]
    /\ last' = Op("clear_metadata_in", i, "ok")
    /\ ret' = None
    /\ UNCHANGED <<outputs, lastVerify, wire>>

Reblind(j, nonce, bpk) ==
    LET r == OutReblind(outputs[j], nonce, bpk, 0)
    IN  /\ outputs' = [outputs EXCEPT ![j] = r.obj]
        /\ last' = Op("reblind", j, r.outcome)
        /\ ret' = None
        /\ UNCHANGED <<inputs, lastVerify, wire>>

Next ==
    \/ \E seed \in Seeds : Blind(seed)
    \/ \E key \in Keys : Unblind(key)
    \/ \E j \in 1..NOut : ClearMetadataOut(j)
    \/ \E i \in 1..NIn : ClearMetadataIn(i)

Spec == Init /\ [][Next]_vars

\* ------------------------------------------------------------ balance (C1)
\* an input's commitment as the container records it: known plaintext and factors,
\* else the UTXO's explicit amount and asset with zero factors
InputGenerator(inp) ==
    IF TruthyBytes(inp.asset)
    THEN generator_generate_blinded(Get(inp.asset), OrZero(inp.asset_blinding_factor))
    ELSE generator_generate(Get(inp.utxo).asset.n)
InputCommitment(inp) ==
    pedersen_commit(OrZero(inp.value_blinding_factor), InputVal(inp), InputGenerator(inp))
\* an output's commitment as it goes on chain: the stored commitment, else the
\* explicit amount under the explicit asset
OutputCommitment(o) ==
    IF o.value_commitment # None THEN pedersen_commitment_parse(Get(o.value_commitment))
    ELSE IF o.value # None /\ o.asset # None
    THEN PMul(Get(o.value), generator_generate(Get(o.asset)))
    ELSE PZero

RECURSIVE PSum(_)
PSum(ps) == IF ps = <<>> THEN PZero ELSE PAdd(Head(ps), PSum(Tail(ps)))

SumInputs == PSum([i \in 1..Len(inputs) |-> InputCommitment(inputs[i])])
SumOutputs == PSum([j \in 1..Len(outputs) |-> OutputCommitment(outputs[j])])
SumBlindedOutputs ==
    PSum([j \in 1..Len(outputs) |->
            IF outputs[j].blinding_pubkey # None /\ outputs[j].value # None
            THEN OutputCommitment(outputs[j]) ELSE PZero])

BlindCompleted == last.op = "blind" /\ last.outcome = "ok"

\* plaintext amounts per asset, inputs against all outputs
PlainIn(a) ==
    SumSeq([i \in 1..Len(inputs) |->
        IF (IF TruthyBytes(inputs[i].asset) THEN Get(inputs[i].asset)
            ELSE Get(inputs[i].utxo).asset.n) = a
        THEN InputVal(inputs[i]) ELSE 0])
PlainOut(a) ==
    SumSeq([j \in 1..Len(outputs) |->
        IF outputs[j].asset = Some(a) /\ outputs[j].value # None
        THEN Get(outputs[j].value) ELSE 0])
PlainBalanced ==
    /\ \A j \in 1..Len(outputs) : outputs[j].value # None /\ outputs[j].asset # None
    /\ \A a \in Assets : PlainIn(a) = PlainOut(a)
SkippedUnblinded ==
    \A j \in 1..Len(outputs) :
        (outputs[j].blinding_pubkey = None \/ outputs[j].value = None)
            => outputs[j].value_commitment = None

\* C1 as stated: after every blind(seed) that completes, the commitment sum of
\* all inputs equals the commitment sum of all outputs.
C1_Original == BlindCompleted => SumInputs = SumOutputs

\* C1 amended: after every blind(seed) that completes, the blinding parts of the
\* inputs and of the outputs that qualified balance (the G coordinate of both
\* sums is the same), and the full commitment sums of all inputs and all outputs
\* are equal whenever the plaintext amounts balance per asset and no skipped
\* output carries a commitment.
C1_BlindingBalances ==
    BlindCompleted =>
        /\ SumInputs[1] = SumBlindedOutputs[1]
        /\ (PlainBalanced /\ SkippedUnblinded) => SumInputs = SumOutputs

C1_Witness ==
    /\ BlindCompleted
    /\ PlainBalanced /\ SkippedUnblinded
    /\ \E i \in 1..Len(inputs) : inputs[i].asset_blinding_factor # None
    /\ \E i \in 1..Len(inputs) : inputs[i].asset = None
    /\ \E j \in 1..Len(outputs) : outputs[j].value_commitment # None
    /\ \E j \in 1..Len(outputs) : outputs[j].blinding_pubkey = None

\* ------------------------------------------------------------ failures (C3, C4)
\* C3 as stated: a blind(seed) that fails for a missing precursor (no output
\* qualifies, no input tag eligible for the surjection proof, no blinding public
\* key for reblind) leaves every input and output record as it was.
C3_FailureBeforeMutation ==
    [][(last'.op = "blind" /\ last'.outcome \in
            {"Nothing to blind", "SurjectionError", "Blinding pubkey required"})
        => (inputs' = inputs /\ outputs' = outputs)]_vars

NothingQualifies ==
    \A j \in 1..Len(outputs) :
        outputs[j].blinding_pubkey = None \/ outputs[j].value = None

\* C4: when no output has both a blinding public key and a known value,
\* blind(seed) raises "Nothing to blind" and changes no input or output record.
C4_NothingToBlind ==
    [][(last'.op = "blind" /\ NothingQualifies)
        => (last'.outcome = "Nothing to blind" /\ inputs' = inputs /\ outputs' = outputs)]_vars

C4_Witness ==
    /\ last.op = "blind" /\ last.outcome = "Nothing to blind"
    /\ \E j \in 1..Len(outputs) :
        outputs[j].blinding_pubkey # None /\ outputs[j].value = None

\* ------------------------------------------------------------ idempotence (C8)
\* C8: on a container where blind(seed) completed, blind(seed) with the same
\* seed completes again and leaves every output and input record unchanged.
C8_BlindIdempotent ==
    [][(BlindCompleted /\ last'.op = "blind" /\ last'.arg = last.arg)
        => (last'.outcome = "ok" /\ outputs' = outputs /\ inputs' = inputs)]_vars

C8_Witness ==
    /\ BlindCompleted
    /\ \A j \in 1..Len(outputs) :
        /\ outputs[j].range_proof # None
        /\ outputs[j].surjection_proof # None
    /\ \E i \in 1..Len(inputs) : inputs[i].value_blinding_factor # None

\* ------------------------------------------------------------ verification (C7)
\* containers whose inputs spend one unit of the first asset
InitVerify ==
    /\ \E kinds \in [1..NIn -> {"explicit", "confidential"}] :
            inputs = [i \in 1..NIn |-> MkInput(i, kinds[i], MaxValue, 1)]
    /\ \E vs \in [1..NOut -> Values], bs \in [1..NOut -> BOOLEAN] :
            outputs = [j \in 1..NOut |-> MkOutput(j, vs[j], 1, bs[j])]
    /\ last = Op("init", 0, "ok")
    /\ lastVerify = "none"
    /\ wire = <<>>
    /\ ret = None

NextVerify ==
    \/ \E passes \in BOOLEAN : Verify(passes)
    \/ \E seed \in Seeds : Blind(seed)
    \/ \E key \in Keys : Unblind(key)
    \/ \E j \in 1..NOut : ClearMetadataOut(j)
    \/ \E i \in 1..NIn : ClearMetadataIn(i)

SpecVerify == InitVerify /\ [][NextVerify]_vars

\* C7: PSET.verify() returns true only when the verify() of every output record
\* passes, and while the latest PSET.verify() is one that raised at an output,
\* PSET.is_verified is false, whatever other calls followed it.
C7_VerifiedIsConjunction ==
    /\ (last.op = "verify" /\ ret = Some(TRUE))
            => \A j \in 1..Len(outputs) : OutVerify(outputs[j]).outcome = "ok"
    /\ lastVerify = "output_raised" => ~PSETIsVerified(inputs, outputs)

C7_Witness ==
    /\ lastVerify = "output_raised"
    /\ last.op # "verify"
    /\ \A i \in 1..Len(inputs) : inputs[i].verified
    /\ \E j \in 1..Len(outputs) : outputs[j].verified

\* ------------------------------------------------------------ one output record
VerifyOutput(j) ==
    LET r == OutVerify(outputs[j])
    IN  /\ outputs' = [outputs EXCEPT ![j] = r.obj]
        /\ last' = Op("verify_out", j, r.outcome)
        /\ ret' = IF r.outcome = "ok" THEN Some(r.obj.verified) ELSE None
        /\ UNCHANGED <<inputs, lastVerify, wire>>

Vout(j) ==
    /\ ret' = Some(OutVout(outputs[j]))
    /\ last' = Op("vout", j, "ok")
    /\ UNCHANGED <<inputs, outputs, lastVerify, wire>>

BlindedVout(j) ==
    /\ ret' = Some(OutBlindedVout(outputs[j]))
    /\ last' = Op("blinded_vout", j, "ok")
    /\ UNCHANGED <<inputs, outputs, lastVerify, wire>>

\* an output blinded with the factors (abf, vbf): all six fields, consistent
BlindedOutput(j, v, a, abf, vbf) ==
    LET gen == generator_generate_blinded(a, abf)
    IN  [NewLOutputScope(OutScript(j), Some(v), Some(a), Some(OutPubkey(j))) EXCEPT
            !.asset_blinding_factor = Some(abf),
            !.value_blinding_factor = Some(vbf),
            !.asset_commitment = Some(generator_serialize(gen)),
            !.value_commitment = Some(pedersen_commitment_serialize(
                                        pedersen_commit(vbf, v, gen)))]

Consistent(o) ==
    LET gen == generator_generate_blinded(Get(o.asset), Get(o.asset_blinding_factor))
    IN  /\ Get(o.asset_commitment) = generator_serialize(gen)
        /\ Get(o.value_commitment) = pedersen_commitment_serialize(
               pedersen_commit(Get(o.value_blinding_factor), Get(o.value), gen))

InitTamper ==
    /\ inputs = <<>>
    /\ \E v \in Values, a \in Assets, abf \in Scalars, vbf \in Scalars :
            outputs = <<BlindedOutput(1, v, a, abf, vbf)>>
    /\ last = Op("init", 0, "ok")
    /\ lastVerify = "none"
    /\ wire = <<>>
    /\ ret = None

\* one stored field of a consistent record is replaced by a different value
TamperValueCommitment(j) ==
    /\ Consistent(outputs[j])
    /\ \E v \in Values, a \in Assets, abf \in Scalars, vbf \in Scalars :
        LET c == BlindedOutput(j, v, a, abf, vbf).value_commitment
        IN  /\ c # outputs[j].value_commitment
            /\ outputs' = [outputs EXCEPT ![j].value_commitment = c]
    /\ last' = Op("tamper", 1, "ok")
    /\ UNCHANGED <<inputs, lastVerify, wire, ret>>

TamperAssetCommitment(j) ==
    /\ Consistent(outputs[j])
    /\ \E a \in Assets, abf \in Scalars :
        LET c == Some(generator_serialize(generator_generate_blinded(a, abf)))
        IN  /\ c # outputs[j].asset_commitment
            /\ outputs' = [outputs EXCEPT ![j].asset_commitment = c]
    /\ last' = Op("tamper", 2, "ok")
    /\ UNCHANGED <<inputs, lastVerify, wire, ret>>

TamperValueBlindingFactor(j) ==
    /\ Consistent(outputs[j])
    /\ \E vbf \in Scalars :
        /\ Some(vbf) # outputs[j].value_blinding_factor
        /\ outputs' = [outputs EXCEPT ![j].value_blinding_factor = Some(vbf)]
    /\ last' = Op("tamper", 3, "ok")
    /\ UNCHANGED <<inputs, lastVerify, wire, ret>>

TamperAssetBlindingFactor(j) ==
    /\ Consistent(outputs[j])
    /\ \E abf \in Scalars :
        /\ Some(abf) # outputs[j].asset_blinding_factor
        /\ outputs' = [outputs EXCEPT ![j].asset_blinding_factor = Some(abf)]
    /\ last' = Op("tamper", 4, "ok")
    /\ UNCHANGED <<inputs, lastVerify, wire, ret>>

NextTamper ==
    \/ TamperValueCommitment(1)
    \/ TamperAssetCommitment(1)
    \/ TamperValueBlindingFactor(1)
    \/ TamperAssetBlindingFactor(1)
    \/ VerifyOutput(1)

SpecTamper == InitTamper /\ [][NextTamper]_vars

\* C2 as stated: for a record storing both commitments, plaintext value and
\* asset and both blinding factors, with any plaintext value (0 included),
\* once one of the four stored fields was replaced by a different value,
\* verify() raises: it does not return true and is_verified is not left true.
C2_TamperDetected ==
    (last.op = "verify_out" /\ ~Consistent(outputs[1]))
        => (last.outcome # "ok" /\ ret # Some(TRUE) /\ ~OutIsVerified(outputs[1]))

\* ------------------------------------------------------------ output records as parsed
Opt(S) == {None} \cup {Some(x) : x \in S}

\* a fixed pair of stored commitments, blinding factors and proofs
StoredGenerator == generator_serialize(generator_generate_blinded(1, 1))
StoredCommitment ==
    pedersen_commitment_serialize(
        pedersen_commit(1, 1, generator_generate_blinded(1, 1)))
StoredRangeProof ==
    rangeproof_sign(<<OutPubkey(1), 0>>, 1, pedersen_commitment_parse(StoredCommitment),
                    1, <<1, 1, 0>>, OutScript(1), generator_parse(StoredGenerator))
StoredSurjectionProof ==
    surjectionproof_generate(0, 0, <<generator_generate(1)>>,
                             generator_parse(StoredGenerator), 0, 1)

InitOutput ==
    /\ inputs = <<>>
    /\ \E v \in Opt(Values), a \in Opt(Assets),
          vc \in Opt({StoredCommitment}), ac \in Opt({StoredGenerator}),
          vbf \in Opt({1}), abf \in Opt({1}),
          rp \in Opt({StoredRangeProof}), sp \in Opt({StoredSurjectionProof}),
          ecdh \in Opt({PrivateKeySec(0)}), bpk \in Opt({OutPubkey(1)}),
          bi \in Opt({0}) :
            outputs = <<[script_pubkey |-> OutScript(1), value |-> v, asset |-> a,
                         value_commitment |-> vc, value_blinding_factor |-> vbf,
                         asset_commitment |-> ac, asset_blinding_factor |-> abf,
                         range_proof |-> rp, surjection_proof |-> sp,
                         ecdh_pubkey |-> ecdh, blinding_pubkey |-> bpk,
                         blinder_index |-> bi, verified |-> FALSE]>>
    /\ last = Op("init", 0, "ok")
    /\ lastVerify = "none"
    /\ wire = <<>>
    /\ ret = None

NextOutput ==
    \/ ClearMetadataOut(1)
    \/ Vout(1)
    \/ BlindedVout(1)
    \/ VerifyOutput(1)
    \/ \E bpk \in Opt({OutPubkey(1)}) : Reblind(1, 0, bpk)

SpecOutput == InitOutput /\ [][NextOutput]_vars

\* C9: clear_metadata() on an output record removes range proof, surjection
\* proof, both blinding factors and the blinder index, leaves both commitments,
\* blinding_pubkey and ecdh_pubkey as they were, clears the plaintext value
\* exactly when a value commitment is stored and the plaintext asset exactly
\* when an asset commitment is stored; a representation of the amount and of
\* the asset that existed before the call exists after it.
C9_ClearMetadata ==
    [][last'.op = "clear_metadata_out" =>
        LET o == outputs[1]
            n == outputs'[1]
        IN  /\ n.range_proof = None /\ n.surjection_proof = None
            /\ n.value_blinding_factor = None /\ n.asset_blinding_factor = None
            /\ n.blinder_index = None
            /\ n.value_commitment = o.value_commitment
            /\ n.asset_commitment = o.asset_commitment
            /\ n.blinding_pubkey = o.blinding_pubkey
            /\ n.ecdh_pubkey = o.ecdh_pubkey
            /\ n.value = (IF o.value_commitment # None THEN None ELSE o.value)
            /\ n.asset = (IF o.asset_commitment # None THEN None ELSE o.asset)
            /\ (o.value # None \/ o.value_commitment # None)
                    => (n.value # None \/ n.value_commitment # None)
            /\ (o.asset # None \/ o.asset_commitment # None)
                    => (n.asset # None \/ n.asset_commitment # None)]_vars

C9_Witness ==
    /\ last.op = "clear_metadata_out"
    /\ outputs[1].value # None /\ outputs[1].value_commitment = None
    /\ outputs[1].asset = None /\ outputs[1].asset_commitment # None
    /\ outputs[1].ecdh_pubkey # None

\* C10 as stated: for every plaintext value (0 included) vout carries the
\* plaintext value and asset whenever they are present and the commitment only
\* where the plaintext is absent; blinded_vout carries the commitment whenever
\* one is stored and the plaintext only otherwise, and a witness with the
\* surjection/range proof pair exactly when a surjection proof is stored.
C10_ViewsSelectByPresence ==
    LET o == outputs[1]
    IN  /\ last.op = "vout" =>
            /\ Get(ret).value = (IF o.value # None
                                 THEN [plain |-> o.value, commit |-> None]
                                 ELSE [plain |-> None, commit |-> o.value_commitment])
            /\ Get(ret).asset = (IF o.asset # None
                                 THEN [plain |-> o.asset, commit |-> None]
                                 ELSE [plain |-> None, commit |-> o.asset_commitment])
        /\ last.op = "blinded_vout" =>
            /\ Get(ret).value = (IF o.value_commitment # None
                                 THEN [plain |-> None, commit |-> o.value_commitment]
                                 ELSE [plain |-> o.value, commit |-> None])
            /\ Get(ret).asset = (IF o.asset_commitment # None
                                 THEN [plain |-> None, commit |-> o.asset_commitment]
                                 ELSE [plain |-> o.asset, commit |-> None])
            /\ (Get(ret).witness # None) = (o.surjection_proof # None)
            /\ Get(ret).witness # None =>
                    Get(ret).witness = Some([surjection |-> o.surjection_proof,
                                             range |-> o.range_proof])

\* ------------------------------------------------------------ one input record (C6)
UnblindInput(i, key) ==
    LET r == InUnblind(inputs[i], key)
    IN  /\ inputs' = [inputs EXCEPT ![i] = r.obj]
        /\ last' = Op("unblind_in", key, r.outcome)
        /\ ret' = None
        /\ UNCHANGED <<outputs, lastVerify, wire>>

\* an input spending a confidential output, with no range proof or with a range
\* proof that rewinds (under one of the keys) to any plaintext and factors, and
\* with its four fields empty or holding earlier values
InitInput ==
    /\ \E v \in Values, a \in Assets, known \in BOOLEAN,
          rp \in Opt([key : {blinding_key(k, InScript(1)) : k \in Keys},
                      value : Values, asset : Assets, vbf : Scalars, abf : Scalars]) :
            inputs = <<[NewLInputScope(1, 0, Some(ConfidentialUtxo(1, v, a)), rp) EXCEPT
                          !.value = IF known THEN Some(MaxValue) ELSE None,
                          !.asset = IF known THEN Some(NAssets) ELSE None,
                          !.value_blinding_factor = IF known THEN Some(0) ELSE None,
                          !.asset_blinding_factor = IF known THEN Some(0) ELSE None]>>
    /\ outputs = <<>>
    /\ last = Op("init", 0, "ok")
    /\ lastVerify = "none"
    /\ wire = <<>>
    /\ ret = None

NextInput ==
    \/ \E key \in Keys : UnblindInput(1, key)
    \/ ClearMetadataIn(1)

SpecInput == InitInput /\ [][NextInput]_vars

\* C6: unblind(key) on an input record changes nothing when there is no range
\* proof; when the generator or the value commitment recomputed from the
\* recovered values differs from the UTXO's it fails and value, asset and both
\* blinding factors keep their values; the four fields change only when both
\* comparisons pass, and then all four hold the recovered values.
C6_UnblindAllOrNothing ==
    [][last'.op = "unblind_in" =>
        LET o == inputs[1]
            n == inputs'[1]
        IN  IF o.range_proof = None THEN n = o /\ last'.outcome = "ok"
            ELSE IF o.utxo = None THEN n = o /\ last'.outcome # "ok"
            ELSE LET rp == Get(o.range_proof)
                     utxo == Get(o.utxo)
                     rewinds == rp.key = blinding_key(last'.arg, utxo.script_pubkey)
                     gen == generator_generate_blinded(rp.asset, rp.abf)
                     genOk == generator_serialize(gen) = utxo.asset
                     cmtOk == pedersen_commitment_serialize(
                                  pedersen_commit(rp.vbf, rp.value, gen)) = utxo.value
                     set == [o EXCEPT !.value = Some(rp.value), !.asset = Some(rp.asset),
                                      !.value_blinding_factor = Some(rp.vbf),
                                      !.asset_blinding_factor = Some(rp.abf)]
                 IN  /\ (rewinds /\ ~(genOk /\ cmtOk))
                            => (n = o /\ last'.outcome # "ok")
                     /\ (rewinds /\ genOk /\ cmtOk)
                            => (n = set /\ last'.outcome = "ok")
                     /\ n # o => (rewinds /\ genOk /\ cmtOk /\ n = set)]_vars

C6_Witness ==
    /\ last.op = "unblind_in" /\ last.outcome = "AssertionError"
    /\ inputs[1].range_proof # None
    /\ inputs[1].value = Some(MaxValue)
    /\ Get(inputs[1].range_proof).value # MaxValue

\* ------------------------------------------------------------ record codec (C5)
RECURSIVE to_bytes_little(_, _)
to_bytes_little(n, len) ==
    IF len = 0 THEN <<>> ELSE <<n % 256>> \o to_bytes_little(n \div 256, len - 1)
RECURSIVE from_bytes_little(_)
from_bytes_little(b) ==
    IF b = <<>> THEN 0 ELSE Head(b) + 256 * from_bytes_little(Tail(b))

Key(ns, sub) == [ns |-> ns, sub |-> sub]
Separator == Key("", 0)
IsProprietary(k) == k.ns \in {"elements", "pset"}

\* ser_string appends one length-prefixed string to the stream
ser_string(stream, x) == Append(stream, x)
WriteField(stream, field, key, bytes) ==
    IF field = None THEN stream ELSE ser_string(ser_string(stream, key), bytes)

InWriteTo(inp, version) ==
    LET s1 == WriteField(<<>>, inp.value, Key("elements", 0),
                         to_bytes_little(Get(inp.value), 8))
        s2 == WriteField(s1, inp.value_blinding_factor, Key("elements", 1),
                         Get(inp.value_blinding_factor))
        s3 == WriteField(s2, inp.asset, Key("elements", 2), Get(inp.asset))
        s4 == WriteField(s3, inp.asset_blinding_factor, Key("elements", 3),
                         Get(inp.asset_blinding_factor))
        s5 == WriteField(s4, inp.range_proof, Key("pset", 14), Get(inp.range_proof))
    IN  Append(s5, Separator)

InReadValue(inp, k, v, compress) ==
    IF ~IsProprietary(k) THEN inp
    ELSE IF k = Key("pset", 14)
    THEN IF compress THEN inp ELSE [inp EXCEPT !.range_proof = Some(v)]
    ELSE IF k = Key("elements", 0) THEN [inp EXCEPT !.value = Some(from_bytes_little(v))]
    ELSE IF k = Key("elements", 1) THEN [inp EXCEPT !.value_blinding_factor = Some(v)]
    ELSE IF k = Key("elements", 2) THEN [inp EXCEPT !.asset = Some(v)]
    ELSE IF k = Key("elements", 3) THEN [inp EXCEPT !.asset_blinding_factor = Some(v)]
    ELSE inp

VersionedKey(version, sub2, sub0) ==
    IF version = Some(2) THEN Key("pset", sub2) ELSE Key("elements", sub0)

OutWriteTo(o, version) ==
    LET s1 == IF version = Some(2)
              THEN WriteField(<<>>, o.asset, Key("pset", 2), Get(o.asset)) ELSE <<>>
        s2 == WriteField(s1, o.value_commitment, VersionedKey(version, 1, 0),
                         Get(o.value_commitment))
        s3 == WriteField(s2, o.value_blinding_factor, Key("elements", 1),
                         Get(o.value_blinding_factor))
        s4 == WriteField(s3, o.asset_commitment, VersionedKey(version, 3, 2),
                         Get(o.asset_commitment))
        s5 == WriteField(s4, o.asset_blinding_factor, Key("elements", 3),
                         Get(o.asset_blinding_factor))
        s6 == WriteField(s5, o.blinding_pubkey, VersionedKey(version, 6, 6),
                         Get(o.blinding_pubkey))
        s7 == WriteField(s6, o.ecdh_pubkey, VersionedKey(version, 7, 7),
                         Get(o.ecdh_pubkey))
        s8 == WriteField(s7, o.range_proof, VersionedKey(version, 4, 4),
                         Get(o.range_proof))
        s9 == WriteField(s8, o.surjection_proof, VersionedKey(version, 5, 5),
                         Get(o.surjection_proof))
        s10 == WriteField(s9, o.blinder_index, Key("pset", 8),
                          to_bytes_little(Get(o.blinder_index), 4))
    IN  Append(s10, Separator)

\* variant: the v2 key of the asset commitment is not recognised
OutReadValueLegacyAssetCommitment(o, k, v, compress) ==
    IF ~IsProprietary(k) THEN o
    ELSE IF k \in {Key("elements", 4), Key("pset", 4)}
    THEN IF compress THEN o ELSE [o EXCEPT !.range_proof = Some(v)]
    ELSE IF k \in {Key("elements", 5), Key("pset", 5)}
    THEN IF compress THEN o ELSE [o EXCEPT !.surjection_proof = Some(v)]
    ELSE IF k \in {Key("elements", 0), Key("pset", 1)} THEN [o EXCEPT !.value_commitment = Some(v)]
    ELSE IF k = Key("elements", 1) THEN [o EXCEPT !.value_blinding_factor = Some(v)]
    ELSE IF k = Key("pset", 2) THEN [o EXCEPT !.asset = Some(v)]
    ELSE IF k = Key("elements", 2) THEN [o EXCEPT !.asset_commitment = Some(v)]
    ELSE IF k = Key("elements", 3) THEN [o EXCEPT !.asset_blinding_factor = Some(v)]
    ELSE IF k \in {Key("elements", 6), Key("pset", 6)} THEN [o EXCEPT !.blinding_pubkey = Some(v)]
    ELSE IF k \in {Key("elements", 7), Key("pset", 7)} THEN [o EXCEPT !.ecdh_pubkey = Some(v)]
    ELSE IF k = Key("pset", 8) THEN [o EXCEPT !.blinder_index = Some(from_bytes_little(v))]
    ELSE o

OutReadValue(o, k, v, compress) ==
    IF ~IsProprietary(k) THEN o
    ELSE IF k \in {Key("elements", 4), Key("pset", 4)}
    THEN IF compress THEN o ELSE [o EXCEPT !.range_proof = Some(v)]
    ELSE IF k \in {Key("elements", 5), Key("pset", 5)}
    THEN IF compress THEN o ELSE [o EXCEPT !.surjection_proof = Some(v)]
    ELSE IF k \in {Key("elements", 0), Key("pset", 1)} THEN [o EXCEPT !.value_commitment = Some(v)]
    ELSE IF k = Key("elements", 1) THEN [o EXCEPT !.value_blinding_factor = Some(v)]
    ELSE IF k = Key("pset", 2) THEN [o EXCEPT !.asset = Some(v)]
    ELSE IF k \in {Key("elements", 2), Key("pset", 3)} THEN [o EXCEPT !.asset_commitment = Some(v)]
    ELSE IF k = Key("elements", 3) THEN [o EXCEPT !.asset_blinding_factor = Some(v)]
    ELSE IF k \in {Key("elements", 6), Key("pset", 6)} THEN [o EXCEPT !.blinding_pubkey = Some(v)]
    ELSE IF k \in {Key("elements", 7), Key("pset", 7)} THEN [o EXCEPT !.ecdh_pubkey = Some(v)]
    ELSE IF k = Key("pset", 8) THEN [o EXCEPT !.blinder_index = Some(from_bytes_little(v))]
    ELSE o

\* the base record's parse loop: a key, then the class's read_value, until the separator
RECURSIVE ReadFrom(_, _, _, _)
ReadFrom(isInput, rec, stream, compress) ==
    IF stream = <<>> \/ Head(stream) = Separator THEN rec
    ELSE LET k == stream[1]
             v == stream[2]
             rest == SubSeq(stream, 3, Len(stream))
         IN  ReadFrom(isInput,
                      IF isInput THEN InReadValue(rec, k, v, compress)
                                 ELSE OutReadValue(rec, k, v, compress),
                      rest, compress)

WireAmounts == {0, MaxValue, 255 + MaxValue, 65536 * MaxValue}

InitCodec ==
    /\ \/ /\ \E v \in Opt(WireAmounts), vbf \in Opt({1}), a \in Opt(Assets),
                abf \in Opt({1}),
                rp \in Opt({UtxoRangeProof(1, MaxValue, 1, 1, 1, MasterKey)}) :
                  inputs = <<[NewLInputScope(1, 0, None, rp) EXCEPT
                                !.value = v, !.value_blinding_factor = vbf,
                                !.asset = a, !.asset_blinding_factor = abf]>>
          /\ outputs = <<>>
       \/ /\ inputs = <<>>
          /\ \E a \in Opt({1}),
                vc \in Opt({StoredCommitment}), ac \in Opt({StoredGenerator}),
                vbf \in Opt({1}), abf \in Opt({1}),
                rp \in Opt({StoredRangeProof}), sp \in Opt({StoredSurjectionProof}),
                ecdh \in Opt({PrivateKeySec(0)}), bpk \in Opt({OutPubkey(1)}),
                bi \in Opt({0, 255 + NOut}) :
                  outputs = <<[NewLOutputScope(OutScript(1), None, a, bpk) EXCEPT
                                 !.value_commitment = vc, !.value_blinding_factor = vbf,
                                 !.asset_commitment = ac, !.asset_blinding_factor = abf,
                                 !.range_proof = rp, !.surjection_proof = sp,
                                 !.ecdh_pubkey = ecdh, !.blinder_index = bi]>>
    /\ last = Op("init", 0, "ok")
    /\ lastVerify = "none"
    /\ wire = None
    /\ ret = None

Versions == {None, Some(2)}

WriteTo(version) ==
    /\ wire' = Some([version |-> version,
                     bytes |-> IF inputs # <<>> THEN InWriteTo(inputs[1], version)
                                                ELSE OutWriteTo(outputs[1], version)])
    /\ last' = Op("write_to", 0, "ok")
    /\ ret' = None
    /\ UNCHANGED <<inputs, outputs, lastVerify>>

\* a fresh record of the same class reads the written bytes back
Parse(compress) ==
    /\ wire # None
    /\ ret' = Some(IF inputs # <<>>
                   THEN ReadFrom(TRUE, NewLInputScope(1, 0, None, None),
                                 Get(wire).bytes, compress)
                   ELSE ReadFrom(FALSE, NewLOutputScope(OutScript(1), None, None, None),
                                 Get(wire).bytes, compress))
    /\ last' = Op("parse", IF compress THEN 1 ELSE 0, "ok")
    /\ UNCHANGED <<inputs, outputs, lastVerify, wire>>

NextCodec ==
    \/ \E version \in Versions : WriteTo(version)
    \/ \E compress \in BOOLEAN : Parse(compress)

SpecCodec == InitCodec /\ [][NextCodec]_vars

InFields == {"value", "value_blinding_factor", "asset", "asset_blinding_factor",
             "range_proof"}
OutFields == {"asset", "value_commitment", "value_blinding_factor", "asset_commitment",
              "asset_blinding_factor", "blinding_pubkey", "ecdh_pubkey", "range_proof",
              "surjection_proof", "blinder_index"}
ProofFields == {"range_proof", "surjection_proof"}

Written == IF inputs # <<>> THEN inputs[1] ELSE outputs[1]
WrittenFields == IF inputs # <<>> THEN InFields ELSE OutFields
ExpectedField(f) ==
    IF last.arg = 1 /\ f \in ProofFields THEN None ELSE Written[f]

\* C5 as stated: for input and output records and both write versions, a
\* non-compressed parse of the written bytes yields every confidential field
\* that was set, and a compressed parse the same except that range proof and
\* surjection proof are absent.
C5_Original ==
    last.op = "parse" => \A f \in WrittenFields : Get(ret)[f] = ExpectedField(f)

\* C5 amended: as stated, except that an output record written in the
\* legacy/unspecified version carries no plaintext asset, which is absent
\* after the parse.
C5_RoundTrip ==
    last.op = "parse" =>
        \A f \in WrittenFields :
            Get(ret)[f] = (IF outputs # <<>> /\ f = "asset" /\ Get(wire).version # Some(2)
                           THEN None ELSE ExpectedField(f))

C5_Witness ==
    /\ last.op = "parse" /\ last.arg = 0
    /\ outputs # <<>>
    /\ Get(wire).version = None
    /\ outputs[1].asset # None
    /\ Get(ret).asset = None
    /\ Get(ret).range_proof # None
    /\ Get(ret).blinder_index = Some(255 + NOut)
    /\ Get(ret).value_commitment # None

====
